---- MODULE Spec2Model ----
(***************************************************************************)
(* Model of addSignatureToPdf, the routine of signature-tool that stamps a *)
(* signature image on the pages of a PDF document.  The repository keeps   *)
(* two variants of it:                                                     *)
(*   "simple"    src/services/pdfService.ts:5-48   (settings.x/settings.y) *)
(*   "override"  src/App.tsx:623-673  (grayscale step, per-page positions) *)
(* An action is the code that runs between two awaits of the async         *)
(* function; the draw loop has no await inside and is part of the action   *)
(* that resumes after the image was embedded.                              *)
(*                                                                         *)
(* Image sizes and the scale percentage are chosen so that                 *)
(* natural * scale / 100 is an integer; the width is then exactly          *)
(* (natural * scale) \div 100.                                             *)
(*                                                                         *)
(* The elements of selectedPages are JavaScript numbers and need not be    *)
(* integers.  They are kept in halves: the model value k stands for the    *)
(* number k / 2, so Whole(1) = 2 is the number 1 and 1 is the number 0.5.  *)
(***************************************************************************)
EXTENDS Integers, Sequences, FiniteSets, TLC

VARIABLES
    variant,              \* which of the two variants is running
    pdfArrayBuffer,       \* argument: the document bytes
    signatureArrayBuffer, \* argument: the signature bytes
    signatureType,        \* argument: the declared MIME type
    settings,             \* argument: SignatureSettings
    pc,                   \* the await the call is suspended at, or its end
    pdfDoc,               \* the decoded document
    finalSignatureBuffer, \* "original" or "processed"
    signatureImage,       \* the embedded image
    width,                \* size of every draw
    height,
    targetIndices,        \* the array the draw loop iterates
    draws,                \* the drawImage calls made, in call order
    error,                \* what the call threw, "none" if nothing
    output,               \* what the call returned, "none" if nothing
    steps,                \* the collaborator operations started, in order
    pdfFile,              \* App state: the uploaded document
    pdfjsDoc,             \* App state: the document loaded for rendering
    sigFile,              \* App state: the uploaded signature
    pageCount,            \* App state
    uiSettings,           \* App state: settings
    status,               \* App state: ProcessingStatus
    errorMessage,         \* App state
    ppc,                  \* the await processPdf is suspended at, or "idle"
    callsThisRun,         \* addSignatureToPdf calls made by this processPdf
    uploads,              \* the documents of the handlePdfUpload runs in flight
    draggingPage          \* App state of src/unnamed/part_001, NoPage for null

argVars == <<variant, pdfArrayBuffer, signatureArrayBuffer, signatureType,
             settings>>

callVars == <<pc, pdfDoc, finalSignatureBuffer, signatureImage, width,
              height, targetIndices, draws, error, output, steps>>

appVars == <<pdfFile, pdfjsDoc, sigFile, pageCount, uiSettings, status,
             errorMessage, ppc, callsThisRun, uploads, draggingPage>>

vars == <<variant, pdfArrayBuffer, signatureArrayBuffer, signatureType,
          settings, pc, pdfDoc, finalSignatureBuffer, signatureImage,
          width, height, targetIndices, draws, error, output, steps,
          pdfFile, pdfjsDoc, sigFile, pageCount, uiSettings, status,
          errorMessage, ppc, callsThisRun, uploads, draggingPage>>

----------------------------------------------------------------------------
(* Bounds of the model *)

MaxPages == 2
MaxSel == 2

(* Numbers in halves *)

Whole(k) == 2 * k

IsWhole(x) == x % 2 = 0

(* Inputs *)

Variants == {"simple", "override"}

Modes == {"all", "last", "custom"}

MimeTypes == {"image/png", "image/jpeg", "image/jpg", "image/gif"}

\* a document that decodes to n pages, or one that does not decode
Documents ==
    {[valid |-> TRUE, pages |-> n] : n \in 0..MaxPages}
        \cup {[valid |-> FALSE, pages |-> 0]}

\* the signature bytes, known by the natural size of the picture they hold
Signatures == {[width |-> 200, height |-> 100]}

Scales == {25, 100}

Opacities == {1}

\* array elements: -1, the page indices, an index too large for every
\* document, and the number 0.5
SelValues == {Whole(k) : k \in (0 - 1)..MaxPages} \cup {1}

SelectedPagesArrays == UNION {[1..k -> SelValues] : k \in 0..MaxSel}

OverridePositions == {[x |-> 0, y |-> 0], [x |-> 306, y |-> 396]}

\* the page indices that may carry an override
OverrideKeys == {0, 1}

PagePositionMaps ==
    UNION {[S -> OverridePositions] : S \in SUBSET OverrideKeys}

SimpleSettings ==
    [x : {400}, y : {50}, scale : Scales, opacity : Opacities,
     mode : Modes, selectedPages : SelectedPagesArrays]

OverrideSettings ==
    [globalX : {400}, globalY : {50}, scale : Scales, opacity : Opacities,
     isGrayscale : BOOLEAN, mode : Modes,
     selectedPages : SelectedPagesArrays, pagePositions : PagePositionMaps]

SettingsOf(v) == IF v = "simple" THEN SimpleSettings ELSE OverrideSettings

----------------------------------------------------------------------------
(* The pure parts of the routine *)

\* pages.map((_, i) => i)
PageIndexArray(n) == [i \in 1..n |-> Whole(i - 1)]

\* the ALL branch numbering the pages from 1
TargetIndices_AllFromOne(s, n) ==
    IF s.mode = "all" THEN [i \in 1..n |-> Whole(i)]
    ELSE IF s.mode = "last" THEN <<Whole(n - 1)>>
    ELSE IF s.mode = "custom" THEN s.selectedPages
    ELSE <<>>

\* the LAST branch taking pages.length for the last index
TargetIndices_LastIsLength(s, n) ==
    IF s.mode = "all" THEN PageIndexArray(n)
    ELSE IF s.mode = "last" THEN <<Whole(n)>>
    ELSE IF s.mode = "custom" THEN s.selectedPages
    ELSE <<>>

TargetIndices(s, n) ==
    IF s.mode = "all" THEN PageIndexArray(n)
    ELSE IF s.mode = "last" THEN <<Whole(n - 1)>>
    ELSE IF s.mode = "custom" THEN s.selectedPages
    ELSE <<>>

\* the guard with a strict lower bound
InRange_ExcludesZero(index, n) == index > 0 /\ index < Whole(n)

\* the guard with an inclusive upper bound
InRange_UpperInclusive(index, n) == index >= 0 /\ index <= Whole(n)

\* the guard of the loop body
InRange(index, n) == index >= 0 /\ index < Whole(n)

\* pages[index] is a page: an array has elements at the integers
\* 0 .. length - 1 and undefined everywhere else
PageDefined(index, n) == IsWhole(index) /\ (index \div 2) \in 0..(n - 1)

\* the fallback to the global position with its coordinates exchanged
PositionOf_GlobalSwapped(v, s, page) ==
    IF v = "simple" THEN [x |-> s.x, y |-> s.y]
    ELSE IF page \in DOMAIN s.pagePositions THEN s.pagePositions[page]
    ELSE [x |-> s.globalY, y |-> s.globalX]

\* the fallback taken on a falsy coordinate instead of a missing entry
PositionOf_ZeroIsFalsy(v, s, page) ==
    IF v = "simple" THEN [x |-> s.x, y |-> s.y]
    ELSE IF page \in DOMAIN s.pagePositions /\ s.pagePositions[page].x # 0
    THEN s.pagePositions[page]
    ELSE [x |-> s.globalX, y |-> s.globalY]

\* settings.pagePositions[index] || { x: globalX, y: globalY }: an entry is
\* an object and so truthy whatever its x and y; a missing key is undefined
PositionOf(v, s, page) ==
    IF v = "simple" THEN [x |-> s.x, y |-> s.y]
    ELSE IF page \in DOMAIN s.pagePositions THEN s.pagePositions[page]
    ELSE [x |-> s.globalX, y |-> s.globalY]

\* the natural size taken unscaled
ScaleImage_IgnoresScale(img, scale) ==
    [width |-> img.width, height |-> img.height]

\* signatureImage.scale(settings.scale / 100)
ScaleImage(img, scale) ==
    [width |-> (img.width * scale) \div 100,
     height |-> (img.height * scale) \div 100]

\* the page addressed by its 1-based number
DrawImage_OneBased(v, s, index, w, h) ==
    [pageIndex |-> (index \div 2) + 1,
     x |-> PositionOf(v, s, index \div 2).x,
     y |-> PositionOf(v, s, index \div 2).y,
     width |-> w, height |-> h, opacity |-> s.opacity]

\* pages[index].drawImage(signatureImage, {...}) on a page that exists;
\* the draw is known by the position of its page in the document
DrawImage(v, s, index, w, h) ==
    [pageIndex |-> index \div 2,
     x |-> PositionOf(v, s, index \div 2).x,
     y |-> PositionOf(v, s, index \div 2).y,
     width |-> w, height |-> h, opacity |-> s.opacity]

\* targetIndices.forEach(...): the draws made; a guarded index whose page
\* is undefined makes page.drawImage throw a TypeError, which ends the loop
RECURSIVE ForEachDraw(_, _, _, _, _, _)
ForEachDraw(v, s, n, w, h, indices) ==
    IF indices = <<>> THEN <<>>
    ELSE IF ~InRange(Head(indices), n)
    THEN ForEachDraw(v, s, n, w, h, Tail(indices))
    ELSE IF ~PageDefined(Head(indices), n) THEN <<>>
    ELSE <<DrawImage(v, s, Head(indices), w, h)>>
             \o ForEachDraw(v, s, n, w, h, Tail(indices))

\* the loop ends by that TypeError
ForEachThrows(n, indices) ==
    \E i \in DOMAIN indices :
        InRange(indices[i], n) /\ ~PageDefined(indices[i], n)

\* every type that is not a JPEG handed to embedPng
EmbedKind_ElseIsPng(type) ==
    IF type = "image/jpeg" \/ type = "image/jpg" THEN "jpg" ELSE "png"

\* the branch the MIME type selects
EmbedKind(type) ==
    IF type = "image/png" THEN "png"
    ELSE IF type = "image/jpeg" \/ type = "image/jpg" THEN "jpg"
    ELSE "unsupported"

\* the preprocessing run whatever the flag
WantsGrayscale_Always(v, s) == v = "override"

\* settings.isGrayscale; the simple variant has no such step
WantsGrayscale(v, s) == v = "override" /\ s.isGrayscale

\* Array.prototype.sort((a, b) => a - b)
RECURSIVE SortNumbers(_)
SortNumbers(seq) ==
    IF seq = <<>> THEN <<>>
    ELSE LET m == CHOOSE i \in DOMAIN seq :
                      \A j \in DOMAIN seq : seq[i] <= seq[j]
             rest == [k \in 1..(Len(seq) - 1) |->
                          IF k < m THEN seq[k] ELSE seq[k + 1]]
         IN  <<seq[m]>> \o SortNumbers(rest)

----------------------------------------------------------------------------
(* The call *)

NoImage == [embedded |-> FALSE, buffer |-> "none", kind |-> "none",
            width |-> 0, height |-> 0]

NoDocument == [loaded |-> FALSE, pages |-> 0]

\* the locals of a call that has just called PDFDocument.load
CallEntry ==
    /\ pc = "load"
    /\ pdfDoc = NoDocument
    /\ finalSignatureBuffer = "original"
    /\ signatureImage = NoImage
    /\ width = 0
    /\ height = 0
    /\ targetIndices = <<>>
    /\ draws = <<>>
    /\ error = "none"
    /\ output = "none"
    /\ steps = <<"load">>

\* useState(...) of the App that goes with each variant of the routine:
\* src/App.tsx:112-129 with the simple one, src/unnamed/part_001:95-114
\* with the one that has overrides
DefaultSettings(v) ==
    IF v = "simple"
    THEN [x |-> 400, y |-> 50, scale |-> 15, opacity |-> 1, mode |-> "all",
          selectedPages |-> <<>>]
    ELSE [globalX |-> 400, globalY |-> 50, scale |-> 25, opacity |-> 1,
          isGrayscale |-> FALSE, mode |-> "all", selectedPages |-> <<>>,
          pagePositions |-> <<>>]

NoFile == [present |-> FALSE, pages |-> 0]

NoSigFile == [present |-> FALSE, type |-> "none"]

\* draggingPage === null
NoPage == 0 - 1

AppInitial ==
    /\ pdfFile = NoFile
    /\ pdfjsDoc = NoFile
    /\ sigFile = NoSigFile
    /\ pageCount = 0
    /\ uiSettings = DefaultSettings(variant)
    /\ status = "IDLE"
    /\ errorMessage = ""
    /\ ppc = "idle"
    /\ callsThisRun = 0
    /\ uploads = {}
    /\ draggingPage = NoPage

\* the routine called on its own, with any arguments
Init ==
    /\ variant \in Variants
    /\ pdfArrayBuffer \in Documents
    /\ signatureArrayBuffer \in Signatures
    /\ signatureType \in MimeTypes
    /\ settings \in SettingsOf(variant)
    /\ CallEntry
    /\ AppInitial

Throw(e) ==
    /\ pc' = "failed"
    /\ error' = e
    /\ steps' = steps

\* the if / else if / else on signatureType: start an embed or throw
StartEmbed ==
    IF EmbedKind(signatureType) = "unsupported"
    THEN Throw("UnsupportedFormat")
    ELSE /\ pc' = "embed"
         /\ error' = error
         /\ steps' = Append(steps, "embed")

\* PDFDocument.load resolved
LoadResolve ==
    /\ pc = "load"
    /\ pdfArrayBuffer.valid
    /\ pdfDoc' = [loaded |-> TRUE, pages |-> pdfArrayBuffer.pages]
    /\ IF WantsGrayscale(variant, settings)
       THEN /\ pc' = "grayscale"
            /\ error' = error
            /\ steps' = Append(steps, "grayscale")
       ELSE StartEmbed
    /\ UNCHANGED appVars
    /\ UNCHANGED <<argVars, finalSignatureBuffer, signatureImage, width,
                   height, targetIndices, draws, output>>

\* a load failure swallowed, the call going on with an empty document
LoadReject_Swallowed ==
    /\ pc = "load"
    /\ ~pdfArrayBuffer.valid
    /\ pdfDoc' = [loaded |-> TRUE, pages |-> 0]
    /\ StartEmbed
    /\ UNCHANGED appVars
    /\ UNCHANGED <<argVars, finalSignatureBuffer, signatureImage, width,
                   height, targetIndices, draws, output>>

\* PDFDocument.load rejected
LoadReject ==
    /\ pc = "load"
    /\ ~pdfArrayBuffer.valid
    /\ Throw("DocumentDecode")
    /\ UNCHANGED appVars
    /\ UNCHANGED <<argVars, pdfDoc, finalSignatureBuffer, signatureImage,
                   width, height, targetIndices, draws, output>>

\* processImageToGrayscale resolved
GrayscaleResolve ==
    /\ pc = "grayscale"
    /\ finalSignatureBuffer' = "processed"
    /\ StartEmbed
    /\ UNCHANGED appVars
    /\ UNCHANGED <<argVars, pdfDoc, signatureImage, width, height,
                   targetIndices, draws, output>>

\* processImageToGrayscale rejected: the image did not load, there was no
\* canvas context, or toBlob gave null
GrayscaleErrors == {"ImageLoad", "NoCanvasContext", "NullBlob"}

\* a preprocessing failure caught, the original bytes embedded instead
GrayscaleReject_FallsBack ==
    /\ pc = "grayscale"
    /\ StartEmbed
    /\ UNCHANGED appVars
    /\ UNCHANGED <<argVars, pdfDoc, finalSignatureBuffer, signatureImage,
                   width, height, targetIndices, draws, output>>

GrayscaleReject ==
    /\ pc = "grayscale"
    /\ \E e \in GrayscaleErrors : Throw(e)
    /\ UNCHANGED appVars
    /\ UNCHANGED <<argVars, pdfDoc, finalSignatureBuffer, signatureImage,
                   width, height, targetIndices, draws, output>>

\* the loop run over settings.selectedPages.sort(...), which sorts the
\* caller's array
EmbedResolve_SortsInPlace ==
    /\ pc = "embed"
    /\ LET img == [embedded |-> TRUE, buffer |-> finalSignatureBuffer,
                   kind |-> EmbedKind(signatureType),
                   width |-> signatureArrayBuffer.width,
                   height |-> signatureArrayBuffer.height]
           size == ScaleImage(img, settings.scale)
           n == pdfDoc.pages
           sorted == [settings EXCEPT
                         !.selectedPages = SortNumbers(settings.selectedPages)]
           target == TargetIndices(sorted, n)
           made == ForEachDraw(variant, sorted, n, size.width, size.height,
                               target)
           threw == ForEachThrows(n, target)
       IN  /\ signatureImage' = img
           /\ settings' = sorted
           /\ width' = size.width
           /\ height' = size.height
           /\ targetIndices' = target
           /\ draws' = made
           /\ steps' = steps \o [i \in 1..Len(made) |-> "draw"]
                             \o (IF threw THEN <<>> ELSE <<"save">>)
           /\ pc' = IF threw THEN "failed" ELSE "save"
           /\ error' = IF threw THEN "TypeError" ELSE error
    /\ UNCHANGED appVars
    /\ UNCHANGED <<variant, pdfArrayBuffer, signatureArrayBuffer,
                   signatureType, pdfDoc, finalSignatureBuffer, output>>

\* embedPng / embedJpg resolved: getPages, scale, the target array, the
\* draw loop, and the call of save unless the loop threw
EmbedResolve ==
    /\ pc = "embed"
    /\ LET img == [embedded |-> TRUE, buffer |-> finalSignatureBuffer,
                   kind |-> EmbedKind(signatureType),
                   width |-> signatureArrayBuffer.width,
                   height |-> signatureArrayBuffer.height]
           size == ScaleImage(img, settings.scale)
           n == pdfDoc.pages
           target == TargetIndices(settings, n)
           made == ForEachDraw(variant, settings, n, size.width,
                               size.height, target)
           threw == ForEachThrows(n, target)
       IN  /\ signatureImage' = img
           /\ width' = size.width
           /\ height' = size.height
           /\ targetIndices' = target
           /\ draws' = made
           /\ steps' = steps \o [i \in 1..Len(made) |-> "draw"]
                             \o (IF threw THEN <<>> ELSE <<"save">>)
           /\ pc' = IF threw THEN "failed" ELSE "save"
           /\ error' = IF threw THEN "TypeError" ELSE error
    /\ UNCHANGED appVars
    /\ UNCHANGED <<argVars, pdfDoc, finalSignatureBuffer, output>>

\* an embed failure that still serializes the document
EmbedReject_SavesAnyway ==
    /\ pc = "embed"
    /\ pc' = "save"
    /\ error' = "Embed"
    /\ steps' = Append(steps, "save")
    /\ UNCHANGED appVars
    /\ UNCHANGED <<argVars, pdfDoc, finalSignatureBuffer, signatureImage,
                   width, height, targetIndices, draws, output>>

\* embedPng / embedJpg rejected: the bytes are not an image of that kind
EmbedReject ==
    /\ pc = "embed"
    /\ Throw("Embed")
    /\ UNCHANGED appVars
    /\ UNCHANGED <<argVars, pdfDoc, finalSignatureBuffer, signatureImage,
                   width, height, targetIndices, draws, output>>

\* pdfDoc.save resolved: the call returns the bytes
SaveResolve ==
    /\ pc = "save"
    /\ pc' = "done"
    /\ output' = "bytes"
    /\ UNCHANGED appVars
    /\ UNCHANGED <<argVars, pdfDoc, finalSignatureBuffer, signatureImage,
                   width, height, targetIndices, draws, error, steps>>

Next ==
    \/ LoadResolve
    \/ LoadReject
    \/ GrayscaleResolve
    \/ GrayscaleReject
    \/ EmbedResolve
    \/ EmbedReject
    \/ SaveResolve

Spec == Init /\ [][Next]_vars

----------------------------------------------------------------------------
(* The App around the routine.  The routine of src/services/pdfService.ts
   is called by the App of src/App.tsx:112-583, the routine with overrides
   by the App of src/unnamed/part_001. *)

MaxUploads == 2

PdfMime == "application/pdf"

\* the files a user can hand to the document input
PdfInputFiles ==
    {[type |-> PdfMime, doc |-> d] : d \in Documents}
        \cup {[type |-> "text/plain", doc |-> [valid |-> FALSE, pages |-> 0]]}

\* what the range box can hold: the parts between commas, each a number
\* or two numbers around a dash, a number being NaN or a value in halves
\* ("0.5" is 1, "1.5" is 3, "" and " " are 0)
RangeNumbers ==
    {[nan |-> TRUE, v |-> 0]}
        \cup {[nan |-> FALSE, v |-> x] :
                  x \in {0, 1, 3} \cup {Whole(k) : k \in 1..(MaxPages + 1)}}

SingleParts == {[dash |-> FALSE, a |-> n, b |-> n] : n \in RangeNumbers}

PageParts ==
    {[dash |-> FALSE, a |-> n, b |-> n] :
         n \in {[nan |-> FALSE, v |-> Whole(k)] : k \in {1, MaxPages}}}

DashParts ==
    [dash : {TRUE}, a : RangeNumbers,
     b : {[nan |-> FALSE, v |-> Whole(k)] : k \in {1, MaxPages + 1}}]

RangeInputs ==
    {<<>>} \cup {<<p>> : p \in SingleParts \cup DashParts}
           \cup {<<p, q>> : p \in PageParts, q \in PageParts}

\* prev.selectedPages.includes(index)
Includes(seq, x) == \E i \in DOMAIN seq : seq[i] = x

\* prev.selectedPages.filter(p => p !== index)
RECURSIVE FilterOut(_, _)
FilterOut(seq, x) ==
    IF seq = <<>> THEN <<>>
    ELSE IF Head(seq) = x THEN FilterOut(Tail(seq), x)
    ELSE <<Head(seq)>> \o FilterOut(Tail(seq), x)

\* Array.from(new Set(selected)): the first occurrence of each value
RECURSIVE UniqueInOrder(_)
UniqueInOrder(seq) ==
    IF seq = <<>> THEN <<>>
    ELSE <<Head(seq)>> \o UniqueInOrder(FilterOut(Tail(seq), Head(seq)))

\* newSelected of togglePageSelection
ToggledPages(sel, index) ==
    IF Includes(sel, index) THEN FilterOut(sel, index)
    ELSE SortNumbers(Append(sel, index))

\* for (let i = lo; i <= hi; i++) if (i > 0 && i <= pageCount) push(i - 1)
RECURSIVE RangeLoop(_, _, _)
RangeLoop(i, hi, count) ==
    IF i > hi THEN <<>>
    ELSE (IF i > 0 /\ i <= Whole(count) THEN <<i - Whole(1)>> ELSE <<>>)
             \o RangeLoop(i + Whole(1), hi, count)

Min(a, b) == IF a <= b THEN a ELSE b

Max(a, b) == IF a >= b THEN a ELSE b

\* what one part pushes to selected
PartPushes(part, count) ==
    IF part.dash
    THEN IF ~part.a.nan /\ ~part.b.nan
         THEN RangeLoop(Min(part.a.v, part.b.v), Max(part.a.v, part.b.v),
                        count)
         ELSE <<>>
    ELSE IF ~part.a.nan /\ part.a.v > 0 /\ part.a.v <= Whole(count)
         THEN <<part.a.v - Whole(1)>>
         ELSE <<>>

RECURSIVE RangeSelected(_, _)
RangeSelected(parts, count) ==
    IF parts = <<>> THEN <<>>
    ELSE PartPushes(Head(parts), count) \o RangeSelected(Tail(parts), count)

\* isPageSigned
IsPageSigned(s, count, idx) ==
    IF s.mode = "all" THEN TRUE
    ELSE IF s.mode = "last" THEN idx = count - 1
    ELSE Includes(s.selectedPages, Whole(idx))

ProcessingError(v) ==
    IF v = "simple" THEN "An error occurred during PDF processing."
    ELSE "Error processing PDF."

\* no call of the routine is in flight
CallIdle ==
    /\ pc = "idle"
    /\ pdfDoc = NoDocument
    /\ finalSignatureBuffer = "original"
    /\ signatureImage = NoImage
    /\ width = 0
    /\ height = 0
    /\ targetIndices = <<>>
    /\ draws = <<>>
    /\ error = "none"
    /\ output = "none"
    /\ steps = <<>>

InitApp ==
    /\ variant \in Variants
    /\ pdfArrayBuffer = [valid |-> FALSE, pages |-> 0]
    /\ signatureArrayBuffer \in Signatures
    /\ signatureType = "none"
    /\ settings = DefaultSettings(variant)
    /\ CallIdle
    /\ AppInitial

\* handlePdfUpload up to its first await; the else branch exists in
\* src/App.tsx only
HandlePdfUpload ==
    \E file \in PdfInputFiles :
        /\ IF file.type = PdfMime
           THEN /\ Cardinality(uploads \cup {file.doc}) <= MaxUploads
                /\ uploads' = uploads \cup {file.doc}
                /\ UNCHANGED errorMessage
           ELSE /\ variant = "simple"
                /\ errorMessage' = "Please upload a valid PDF file."
                /\ UNCHANGED uploads
        /\ UNCHANGED <<pdfFile, pdfjsDoc, sigFile, pageCount, uiSettings,
                       status, ppc, callsThisRun>>
        /\ UNCHANGED <<argVars, callVars>>
        /\ UNCHANGED draggingPage

\* the setters of src/App.tsx in both Apps: pagePositions is not reset
PdfUploadResolve_KeepsPositions ==
    \E doc \in uploads :
        /\ doc.valid
        /\ uploads' = uploads \ {doc}
        /\ pdfjsDoc' = [present |-> TRUE, pages |-> doc.pages]
        /\ pageCount' = doc.pages
        /\ pdfFile' = [present |-> TRUE, pages |-> doc.pages]
        /\ uiSettings' =
               [uiSettings EXCEPT
                    !.selectedPages = PageIndexArray(doc.pages)]
        /\ errorMessage' = ""
        /\ UNCHANGED <<sigFile, status, ppc, callsThisRun>>
        /\ UNCHANGED <<argVars, callVars>>
        /\ UNCHANGED draggingPage

\* handlePdfUpload after its last await: the three awaits in a row change
\* no state of the App, the setters run in one block after the third
PdfUploadResolve ==
    \E doc \in uploads :
        /\ doc.valid
        /\ uploads' = uploads \ {doc}
        /\ pdfjsDoc' = [present |-> TRUE, pages |-> doc.pages]
        /\ pageCount' = doc.pages
        /\ pdfFile' = [present |-> TRUE, pages |-> doc.pages]
        /\ uiSettings' =
               IF variant = "simple"
               THEN [uiSettings EXCEPT
                         !.selectedPages = PageIndexArray(doc.pages)]
               ELSE [uiSettings EXCEPT
                         !.selectedPages = PageIndexArray(doc.pages),
                         !.pagePositions = <<>>]
        /\ errorMessage' = ""
        /\ UNCHANGED <<sigFile, status, ppc, callsThisRun>>
        /\ UNCHANGED <<argVars, callVars>>
        /\ UNCHANGED draggingPage

\* one of the awaits of handlePdfUpload rejects
PdfUploadReject ==
    \E doc \in uploads :
        /\ uploads' = uploads \ {doc}
        /\ errorMessage' = "Failed to read PDF file."
        /\ UNCHANGED <<pdfFile, pdfjsDoc, sigFile, pageCount, uiSettings,
                       status, ppc, callsThisRun>>
        /\ UNCHANGED <<argVars, callVars>>
        /\ UNCHANGED draggingPage

\* handleSigUpload; the else branch exists in src/App.tsx only
HandleSigUpload ==
    \E type \in MimeTypes :
        /\ IF type \in {"image/png", "image/jpeg"}
           THEN /\ sigFile' = [present |-> TRUE, type |-> type]
                /\ errorMessage' = ""
           ELSE /\ variant = "simple"
                /\ errorMessage' =
                       "Please upload a valid PNG or JPG image for the signature."
                /\ UNCHANGED sigFile
        /\ UNCHANGED <<pdfFile, pdfjsDoc, pageCount, uiSettings, status,
                       ppc, callsThisRun, uploads>>
        /\ UNCHANGED <<argVars, callVars>>
        /\ UNCHANGED draggingPage

\* togglePageSelection, from the controls of a page of the list: of every
\* page in src/App.tsx, of the pages not signed in src/unnamed/part_001
TogglePageSelectionAt(index) ==
    /\ index \in 0..(pageCount - 1)
    /\ pdfFile.present
    /\ variant = "override" => ~IsPageSigned(uiSettings, pageCount, index)
    /\ uiSettings' =
           [uiSettings EXCEPT
                !.selectedPages = ToggledPages(@, Whole(index)),
                !.mode = "custom"]
    /\ UNCHANGED <<pdfFile, pdfjsDoc, sigFile, pageCount, status,
                   errorMessage, ppc, callsThisRun, uploads>>
    /\ UNCHANGED <<argVars, callVars>>
    /\ UNCHANGED draggingPage

TogglePageSelection ==
    \E index \in 0..(MaxPages - 1) : TogglePageSelectionAt(index)

\* removeSignature that leaves mode alone
RemoveSignatureAt_KeepsMode(index) ==
    /\ index \in 0..(pageCount - 1)
    /\ variant = "override"
    /\ pdfFile.present
    /\ IsPageSigned(uiSettings, pageCount, index)
    /\ uiSettings' =
           [uiSettings EXCEPT
                !.selectedPages = FilterOut(@, Whole(index))]
    /\ UNCHANGED <<pdfFile, pdfjsDoc, sigFile, pageCount, status,
                   errorMessage, ppc, callsThisRun, uploads>>
    /\ UNCHANGED <<argVars, callVars>>
    /\ UNCHANGED draggingPage

\* removeSignature, from the control of a signed page
RemoveSignatureAt(index) ==
    /\ index \in 0..(pageCount - 1)
    /\ variant = "override"
    /\ pdfFile.present
    /\ IsPageSigned(uiSettings, pageCount, index)
    /\ uiSettings' =
           [uiSettings EXCEPT
                !.selectedPages = FilterOut(@, Whole(index)),
                !.mode = "custom"]
    /\ UNCHANGED <<pdfFile, pdfjsDoc, sigFile, pageCount, status,
                   errorMessage, ppc, callsThisRun, uploads>>
    /\ UNCHANGED <<argVars, callVars>>
    /\ UNCHANGED draggingPage

RemoveSignature ==
    \E index \in 0..(MaxPages - 1) : RemoveSignatureAt(index)

\* the three mode buttons
SetMode ==
    \E mode \in Modes :
        /\ variant = "simple"
        /\ uiSettings' = [uiSettings EXCEPT !.mode = mode]
        /\ UNCHANGED <<pdfFile, pdfjsDoc, sigFile, pageCount, status,
                       errorMessage, ppc, callsThisRun, uploads>>
        /\ UNCHANGED <<argVars, callVars>>
        /\ UNCHANGED draggingPage

\* handleRangeApply; the range box is shown in custom mode
HandleRangeApply ==
    \E rangeInput \in RangeInputs :
        /\ variant = "simple"
        /\ uiSettings.mode = "custom"
        /\ rangeInput # <<>>
        /\ uiSettings' =
               [uiSettings EXCEPT
                    !.selectedPages =
                        SortNumbers(UniqueInOrder(
                            RangeSelected(rangeInput, pageCount))),
                    !.mode = "custom"]
        /\ UNCHANGED <<pdfFile, pdfjsDoc, sigFile, pageCount, status,
                       errorMessage, ppc, callsThisRun, uploads>>
        /\ UNCHANGED <<argVars, callVars>>
        /\ UNCHANGED draggingPage

\* the grayscale switch
ToggleGrayscale ==
    /\ variant = "override"
    /\ uiSettings' = [uiSettings EXCEPT !.isGrayscale = ~@]
    /\ UNCHANGED <<pdfFile, pdfjsDoc, sigFile, pageCount, status,
                   errorMessage, ppc, callsThisRun, uploads>>
    /\ UNCHANGED <<argVars, callVars>>
    /\ UNCHANGED draggingPage

\* processPdf behind its own test only, which does not look at status
ProcessPdf_NoStatusGuard ==
    /\ pdfFile.present
    /\ sigFile.present
    /\ status' = "PROCESSING"
    /\ ppc' = "readPdf"
    /\ callsThisRun' = 0
    /\ pdfArrayBuffer' = [valid |-> TRUE, pages |-> pdfFile.pages]
    /\ signatureType' = sigFile.type
    /\ settings' = uiSettings
    /\ UNCHANGED <<variant, signatureArrayBuffer>>
    /\ UNCHANGED <<pdfFile, pdfjsDoc, sigFile, pageCount, uiSettings,
                   errorMessage, uploads, draggingPage>>
    /\ UNCHANGED callVars

\* processPdf up to its first await, from the download button, which is
\* disabled without both files and while PROCESSING; the run keeps the
\* pdfFile, sigFile and settings of the render it was started from
ProcessPdf ==
    /\ pdfFile.present
    /\ sigFile.present
    /\ status # "PROCESSING"
    /\ status' = "PROCESSING"
    /\ ppc' = "readPdf"
    /\ callsThisRun' = 0
    /\ pdfArrayBuffer' = [valid |-> TRUE, pages |-> pdfFile.pages]
    /\ signatureType' = sigFile.type
    /\ settings' = uiSettings
    /\ UNCHANGED <<variant, signatureArrayBuffer>>
    /\ UNCHANGED <<pdfFile, pdfjsDoc, sigFile, pageCount, uiSettings,
                   errorMessage, uploads>>
    /\ UNCHANGED callVars
    /\ UNCHANGED draggingPage

\* await pdfFile.file.arrayBuffer() resolves
ReadPdfResolve ==
    /\ ppc = "readPdf"
    /\ ppc' = "readSig"
    /\ UNCHANGED <<pdfFile, pdfjsDoc, sigFile, pageCount, uiSettings,
                   status, errorMessage, callsThisRun, uploads>>
    /\ UNCHANGED <<argVars, callVars>>
    /\ UNCHANGED draggingPage

\* await sigFile.file.arrayBuffer() resolves: addSignatureToPdf is called
\* and runs to its first await
ReadSigResolve ==
    /\ ppc = "readSig"
    /\ ppc' = "call"
    /\ callsThisRun' = callsThisRun + 1
    /\ pc' = "load"
    /\ steps' = <<"load">>
    /\ UNCHANGED <<pdfDoc, finalSignatureBuffer, signatureImage, width,
                   height, targetIndices, draws, error, output>>
    /\ UNCHANGED <<pdfFile, pdfjsDoc, sigFile, pageCount, uiSettings,
                   status, errorMessage, uploads>>
    /\ UNCHANGED argVars
    /\ UNCHANGED draggingPage

\* the arguments and the locals of the call are gone
CallReturns ==
    /\ pdfArrayBuffer' = [valid |-> FALSE, pages |-> 0]
    /\ signatureType' = "none"
    /\ settings' = DefaultSettings(variant)
    /\ UNCHANGED <<variant, signatureArrayBuffer>>
    /\ pc' = "idle"
    /\ pdfDoc' = NoDocument
    /\ finalSignatureBuffer' = "original"
    /\ signatureImage' = NoImage
    /\ width' = 0
    /\ height' = 0
    /\ targetIndices' = <<>>
    /\ draws' = <<>>
    /\ error' = "none"
    /\ output' = "none"
    /\ steps' = <<>>

\* one of the two arrayBuffer() promises rejects: the catch block
ReadReject ==
    /\ ppc \in {"readPdf", "readSig"}
    /\ errorMessage' = ProcessingError(variant)
    /\ status' = "ERROR"
    /\ ppc' = "idle"
    /\ CallReturns
    /\ UNCHANGED <<pdfFile, pdfjsDoc, sigFile, pageCount, uiSettings,
                   callsThisRun, uploads>>
    /\ UNCHANGED draggingPage

\* await addSignatureToPdf(...) resolves: the download and COMPLETED
ProcessCompleted ==
    /\ ppc = "call"
    /\ pc = "done"
    /\ status' = "COMPLETED"
    /\ ppc' = "idle"
    /\ CallReturns
    /\ UNCHANGED <<pdfFile, pdfjsDoc, sigFile, pageCount, uiSettings,
                   errorMessage, callsThisRun, uploads>>
    /\ UNCHANGED draggingPage

\* a catch block that sets the message and leaves status alone
ProcessCatch_LeavesProcessing ==
    /\ ppc = "call"
    /\ pc = "failed"
    /\ errorMessage' = ProcessingError(variant)
    /\ ppc' = "idle"
    /\ CallReturns
    /\ UNCHANGED <<pdfFile, pdfjsDoc, sigFile, pageCount, uiSettings,
                   status, callsThisRun, uploads, draggingPage>>

\* a catch block that calls the routine once more before giving up
ProcessCatch_Retries ==
    /\ ppc = "call"
    /\ pc = "failed"
    /\ IF callsThisRun < 2
       THEN /\ callsThisRun' = callsThisRun + 1
            /\ pc' = "load"
            /\ pdfDoc' = NoDocument
            /\ finalSignatureBuffer' = "original"
            /\ signatureImage' = NoImage
            /\ width' = 0
            /\ height' = 0
            /\ targetIndices' = <<>>
            /\ draws' = <<>>
            /\ error' = "none"
            /\ output' = "none"
            /\ steps' = <<"load">>
            /\ UNCHANGED <<status, errorMessage, ppc>>
            /\ UNCHANGED argVars
       ELSE /\ errorMessage' = ProcessingError(variant)
            /\ status' = "ERROR"
            /\ ppc' = "idle"
            /\ CallReturns
            /\ UNCHANGED callsThisRun
    /\ UNCHANGED <<pdfFile, pdfjsDoc, sigFile, pageCount, uiSettings,
                   uploads>>
    /\ UNCHANGED draggingPage

\* await addSignatureToPdf(...) rejects: the catch block
ProcessCatch ==
    /\ ppc = "call"
    /\ pc = "failed"
    /\ errorMessage' = ProcessingError(variant)
    /\ status' = "ERROR"
    /\ ppc' = "idle"
    /\ CallReturns
    /\ UNCHANGED <<pdfFile, pdfjsDoc, sigFile, pageCount, uiSettings,
                   callsThisRun, uploads>>
    /\ UNCHANGED draggingPage

\* the pointer of a mousemove or touchmove and the rectangle of the page
\* element: dx is clientX - rect.left, dy is clientY - rect.top, w and h
\* are rect.width and rect.height, which are positive for an element that
\* is laid out (zoom is kept at 0.1 or more)
Pointers ==
    {[dx |-> 0 - 5, dy |-> 0 - 5, w |-> 100, h |-> 141],
     [dx |-> 40, dy |-> 0, w |-> 100, h |-> 141],
     [dx |-> 120, dy |-> 150, w |-> 100, h |-> 141],
     [dx |-> 25, dy |-> 141, w |-> 200, h |-> 282]}

PdfPoint_NoClamp(num, den, size) == (2 * size * num + den) \div (2 * den)

\* Math.round(Math.max(0, Math.min(1, num / den)) * size), Math.round
\* taking a half upwards; the quotient is exact here, a double in the code
PdfPoint(num, den, size) ==
    IF num <= 0 THEN 0
    ELSE IF num >= den THEN size
    ELSE (2 * size * num + den) \div (2 * den)

\* Math.round(clampedX * 612)
PdfX(p) == PdfPoint(p.dx, p.w, 612)

\* Math.round(clampedY * 792) with yPercent = 1 - (clientY - rect.top) /
\* rect.height
PdfY(p) == PdfPoint(p.h - p.dy, p.h, 792)

\* { ...prev.pagePositions, [draggingPage]: pos }
WithPosition(positions, page, pos) ==
    [k \in DOMAIN positions \cup {page} |->
         IF k = page THEN pos ELSE positions[k]]

\* handleDragStart, from the signature shown on a signed page once a
\* signature file is loaded
HandleDragStart ==
    \E index \in 0..(pageCount - 1) :
        /\ variant = "override"
        /\ sigFile.present
        /\ IsPageSigned(uiSettings, pageCount, index)
        /\ draggingPage' = index
        /\ UNCHANGED <<pdfFile, pdfjsDoc, sigFile, pageCount, uiSettings,
                       status, errorMessage, ppc, callsThisRun, uploads>>
        /\ UNCHANGED <<argVars, callVars>>

\* handleDragMove, a listener of the window while draggingPage is set;
\* it returns early when the page element is not in the list any more
HandleDragMoveTo(p) ==
    /\ variant = "override"
    /\ draggingPage # NoPage
    /\ draggingPage \in 0..(pageCount - 1)
    /\ uiSettings' =
           [uiSettings EXCEPT
                !.pagePositions =
                    WithPosition(@, draggingPage,
                                 [x |-> PdfX(p), y |-> PdfY(p)])]
    /\ UNCHANGED <<pdfFile, pdfjsDoc, sigFile, pageCount, status,
                   errorMessage, ppc, callsThisRun, uploads, draggingPage>>
    /\ UNCHANGED <<argVars, callVars>>

HandleDragMove ==
    \E p \in Pointers : HandleDragMoveTo(p)

\* handleDragEnd, a listener of the window while draggingPage is set
HandleDragEnd ==
    /\ variant = "override"
    /\ draggingPage # NoPage
    /\ draggingPage' = NoPage
    /\ UNCHANGED <<pdfFile, pdfjsDoc, sigFile, pageCount, uiSettings,
                   status, errorMessage, ppc, callsThisRun, uploads>>
    /\ UNCHANGED <<argVars, callVars>>

\* Object.keys(settings.pagePositions)[0]: the keys of an object that
\* are array indices come first, in ascending order
FirstKey_Highest(positions) ==
    CHOOSE k \in DOMAIN positions : \A j \in DOMAIN positions : j <= k

FirstKey(positions) ==
    CHOOSE k \in DOMAIN positions : \A j \in DOMAIN positions : k <= j

\* posToUse of applyToAll
PosToUse(s) ==
    IF DOMAIN s.pagePositions # {}
    THEN s.pagePositions[FirstKey(s.pagePositions)]
    ELSE [x |-> s.globalX, y |-> s.globalY]

\* applyToAll, from the sync button
ApplyToAll ==
    /\ variant = "override"
    /\ uiSettings' =
           [uiSettings EXCEPT
                !.pagePositions =
                    [i \in 0..(pageCount - 1) |-> PosToUse(uiSettings)]]
    /\ UNCHANGED <<pdfFile, pdfjsDoc, sigFile, pageCount, status,
                   errorMessage, ppc, callsThisRun, uploads, draggingPage>>
    /\ UNCHANGED <<argVars, callVars>>

\* The files and processPdf.  The bytes given to the routine were decoded
\* by PDFDocument.load when the file was uploaded, so LoadReject is no
\* step here.  The handlers that edit the page selection write
\* settings.selectedPages and settings.mode only and are in NextPages.
NextApp ==
    \/ HandlePdfUpload
    \/ PdfUploadResolve
    \/ PdfUploadReject
    \/ HandleSigUpload
    \/ SetMode
    \/ ToggleGrayscale
    \/ ProcessPdf
    \/ ReadPdfResolve
    \/ ReadSigResolve
    \/ ReadReject
    \/ ProcessCompleted
    \/ ProcessCatch
    \/ LoadResolve
    \/ GrayscaleResolve
    \/ GrayscaleReject
    \/ EmbedResolve
    \/ EmbedReject
    \/ SaveResolve

SpecApp == InitApp /\ [][NextApp]_vars

\* the steps of a processPdf run in flight: the continuation after each
\* await
ProcessStep ==
    \/ ReadPdfResolve
    \/ ReadSigResolve
    \/ ReadReject
    \/ LoadResolve
    \/ GrayscaleResolve
    \/ GrayscaleReject
    \/ EmbedResolve
    \/ EmbedReject
    \/ SaveResolve
    \/ ProcessCompleted
    \/ ProcessCatch

\* The files, the grayscale switch and processPdf; the mode buttons, which
\* only change the pages the loop of the call visits, are left to NextApp
NextProcess ==
    \/ HandlePdfUpload
    \/ PdfUploadResolve
    \/ PdfUploadReject
    \/ HandleSigUpload
    \/ ToggleGrayscale
    \/ ProcessPdf
    \/ ReadPdfResolve
    \/ ReadSigResolve
    \/ ReadReject
    \/ ProcessCompleted
    \/ ProcessCatch
    \/ LoadResolve
    \/ GrayscaleResolve
    \/ GrayscaleReject
    \/ EmbedResolve
    \/ EmbedReject
    \/ SaveResolve

\* every awaited promise settles and its continuation runs
SpecAppLive == InitApp /\ [][NextProcess]_vars /\ WF_vars(ProcessStep)

\* The page selection: the handlers that write pageCount or
\* settings.selectedPages
NextPages ==
    \/ HandlePdfUpload
    \/ PdfUploadResolve
    \/ PdfUploadReject
    \/ TogglePageSelection
    \/ RemoveSignature
    \/ SetMode
    \/ HandleRangeApply
    \/ ApplyToAll

SpecPages == InitApp /\ [][NextPages]_vars

\* The signature positions: the handlers that write
\* settings.pagePositions
NextDrag ==
    \/ HandlePdfUpload
    \/ PdfUploadResolve
    \/ PdfUploadReject
    \/ HandleSigUpload
    \/ HandleDragStart
    \/ HandleDragMove
    \/ HandleDragEnd
    \/ ApplyToAll

SpecDrag == InitApp /\ [][NextDrag]_vars

----------------------------------------------------------------------------
(* What the claims speak about *)

\* the draw loop has run
LoopRan == pc \in {"save", "done"}

DrawnPageSeq == [i \in 1..Len(draws) |-> draws[i].pageIndex]

DrawnPageSet == {draws[i].pageIndex : i \in 1..Len(draws)}

StrictlyAscending(seq) == \A i \in 1..(Len(seq) - 1) : seq[i] < seq[i + 1]

SelectedSet == {settings.selectedPages[i] : i \in DOMAIN settings.selectedPages}

\* selectedPages \cap [0, pageCount), as a set of page indices
SelectedInRange ==
    {x \div 2 : x \in {y \in SelectedSet : IsWhole(y)}}
        \cap (0..(pdfDoc.pages - 1))

HasDuplicate(seq) == \E i, j \in DOMAIN seq : i # j /\ seq[i] = seq[j]

----------------------------------------------------------------------------
\* C1: in CUSTOM mode the sequence of page indices drawn on is
\* sort(unique(selectedPages) \cap [0, pageCount)): the in-range selected
\* indices, each once, in ascending order.
C1_CustomDrawsSortedUnique ==
    (LoopRan /\ settings.mode = "custom") =>
        /\ DrawnPageSet = SelectedInRange
        /\ Len(draws) = Cardinality(SelectedInRange)
        /\ StrictlyAscending(DrawnPageSeq)

\* C2: in ALL mode there are exactly pageCount draws, the i-th of them on
\* page index i - 1.
C2_AllDrawsEveryPage ==
    (LoopRan /\ settings.mode = "all") =>
        /\ Len(draws) = pdfDoc.pages
        /\ \A i \in 1..Len(draws) : draws[i].pageIndex = i - 1

C2_Witness ==
    /\ pc = "done"
    /\ settings.mode = "all"
    /\ pdfDoc.pages >= 2
    /\ Len(draws) = pdfDoc.pages

\* C3: in LAST mode a document with pages gets exactly one draw, on page
\* index pageCount - 1, and a document without pages gets no draw.
C3_LastDrawsLastPage ==
    (LoopRan /\ settings.mode = "last") =>
        IF pdfDoc.pages > 0
        THEN Len(draws) = 1 /\ draws[1].pageIndex = pdfDoc.pages - 1
        ELSE draws = <<>>

C3_Witness ==
    /\ pc = "done"
    /\ settings.mode = "last"
    /\ pdfDoc.pages >= 2
    /\ Len(draws) = 1

\* C4: within one call no page index receives more than one draw.
C4_NoPageDrawnTwice ==
    \A i, j \in 1..Len(draws) :
        i # j => draws[i].pageIndex # draws[j].pageIndex

\* C5: the draws of one call are made in strictly ascending page-index
\* order: a draw on page i is never followed by a draw on a page j <= i.
C5_DrawsAscending ==
    \A i, j \in 1..Len(draws) :
        i < j => draws[i].pageIndex < draws[j].pageIndex

\* C6: every page index drawn on satisfies 0 <= pageIndex < pageCount.
C6_DrawnIndexValid ==
    \A i \in 1..Len(draws) :
        0 <= draws[i].pageIndex /\ draws[i].pageIndex < pdfDoc.pages

C6_Witness ==
    /\ pc = "done"
    /\ settings.mode = "custom"
    /\ \E k \in SelectedSet : k >= Whole(pdfDoc.pages)
    /\ draws # <<>>

\* C7: in CUSTOM mode the set of pages drawn on is exactly
\* selectedPages \cap [0, pageCount): an out-of-range index is dropped, the
\* other indices are still drawn and the call still returns its bytes.
C7_CustomDrawsInRangeSelection ==
    /\ (LoopRan /\ settings.mode = "custom") => DrawnPageSet = SelectedInRange
    /\ (pc = "failed" /\ settings.mode = "custom") =>
           /\ draws = <<>>
           /\ error \in {"DocumentDecode", "UnsupportedFormat", "Embed"}
                            \cup GrayscaleErrors
    /\ pc = "done" => output = "bytes"

C7_Witness ==
    /\ pc = "done"
    /\ output = "bytes"
    /\ settings.mode = "custom"
    /\ settings.selectedPages # <<>>
    /\ Head(settings.selectedPages) < 0
    /\ SelectedInRange # {}
    /\ DrawnPageSet = SelectedInRange

\* C8: a draw on a page that has an entry in pagePositions is at that
\* entry's (x, y), also when the entry is {x: 0, y: 0}; a draw on any other
\* page is at the global position.
C8_PositionResolution ==
    \A i \in 1..Len(draws) :
        LET index == draws[i].pageIndex
        IN  IF variant = "override"
            THEN IF index \in DOMAIN settings.pagePositions
                 THEN /\ draws[i].x = settings.pagePositions[index].x
                      /\ draws[i].y = settings.pagePositions[index].y
                 ELSE /\ draws[i].x = settings.globalX
                      /\ draws[i].y = settings.globalY
            ELSE draws[i].x = settings.x /\ draws[i].y = settings.y

C8_Witness ==
    /\ pc = "done"
    /\ variant = "override"
    /\ \E i, j \in 1..Len(draws) :
        /\ draws[i].pageIndex \in DOMAIN settings.pagePositions
        /\ settings.pagePositions[draws[i].pageIndex] = [x |-> 0, y |-> 0]
        /\ draws[i].x = 0 /\ draws[i].y = 0
        /\ draws[j].pageIndex \notin DOMAIN settings.pagePositions
        /\ draws[j].x = settings.globalX /\ draws[j].y = settings.globalY

\* C9: every draw of one call has the same width and height, the natural
\* width and height of the embedded signature scaled by settings.scale / 100.
C9_UniformScaledSize ==
    \A i \in 1..Len(draws) :
        /\ draws[i].width * 100 = signatureImage.width * settings.scale
        /\ draws[i].height * 100 = signatureImage.height * settings.scale
        /\ draws[i].width = draws[1].width
        /\ draws[i].height = draws[1].height
        /\ signatureImage.width = signatureArrayBuffer.width
        /\ signatureImage.height = signatureArrayBuffer.height

C9_Witness ==
    /\ pc = "done"
    /\ Len(draws) >= 2
    /\ settings.scale = 25
    /\ draws[1].width = 50 /\ draws[1].height = 25
    /\ draws[2].width = 50 /\ draws[2].height = 25

\* the MIME types that name neither PNG nor JPEG
NotPngOrJpeg(type) == type \notin {"image/png", "image/jpeg", "image/jpg"}

\* C10 as stated: with a valid document and a MIME type other than PNG or
\* JPEG the call fails with the unsupported-format error, whatever the
\* settings (isGrayscale included), draws nothing and returns nothing.
C10_UnsupportedAlwaysFormatError ==
    (pdfArrayBuffer.valid /\ NotPngOrJpeg(signatureType)) =>
        /\ draws = <<>>
        /\ output = "none"
        /\ pc \notin {"embed", "save", "done"}
        /\ pc = "failed" => error = "UnsupportedFormat"

\* C10 amended: with a valid document and a MIME type other than PNG or
\* JPEG the call fails, draws nothing and returns nothing; the error is the
\* unsupported-format error unless isGrayscale is set and the preprocessing
\* step itself fails first, and then it is that step's error.
C10_UnsupportedFails ==
    (pdfArrayBuffer.valid /\ NotPngOrJpeg(signatureType)) =>
        /\ draws = <<>>
        /\ output = "none"
        /\ signatureImage = NoImage
        /\ pc \notin {"embed", "save", "done"}
        /\ pc = "failed" =>
            \/ error = "UnsupportedFormat"
            \/ /\ variant = "override"
               /\ settings.isGrayscale
               /\ finalSignatureBuffer = "original"
               /\ error \in {"ImageLoad", "NoCanvasContext", "NullBlob"}
        /\ (pc = "failed" /\ finalSignatureBuffer = "processed") =>
               error = "UnsupportedFormat"

C10_Witness ==
    /\ pc = "failed"
    /\ error = "UnsupportedFormat"
    /\ signatureType = "image/gif"
    /\ pdfArrayBuffer.valid
    /\ variant = "override"
    /\ settings.isGrayscale
    /\ finalSignatureBuffer = "processed"
    /\ draws = <<>>
    /\ output = "none"

----------------------------------------------------------------------------
StepSet == {steps[i] : i \in DOMAIN steps}

\* the place of a step in the order decode, preprocess, embed, draw, save
StepRank(step) ==
    CASE step = "load" -> 1
      [] step = "grayscale" -> 2
      [] step = "embed" -> 3
      [] step = "draw" -> 4
      [] step = "save" -> 5

\* C11: when isGrayscale is set and the preprocessing step fails, the call
\* fails with that error, nothing is embedded or drawn and no bytes are
\* returned; with isGrayscale set the bytes handed to the embed are never
\* the unprocessed ones.
C11_GrayscaleFailureSurfaces ==
    /\ error \in GrayscaleErrors =>
           /\ variant = "override" /\ settings.isGrayscale
           /\ pc = "failed"
           /\ "embed" \notin StepSet
           /\ signatureImage = NoImage
           /\ draws = <<>>
           /\ output = "none"
    /\ (variant = "override" /\ settings.isGrayscale /\ "embed" \in StepSet)
           => finalSignatureBuffer = "processed"

C11_Witness ==
    /\ pc = "failed"
    /\ error = "ImageLoad"
    /\ variant = "override"
    /\ settings.isGrayscale
    /\ signatureType = "image/png"
    /\ steps = <<"load", "grayscale">>
    /\ output = "none"

\* C12: when decoding the document fails, the call fails with the
\* document-decode error and starts none of the later steps: no
\* preprocessing, no embed, no draw, no save.
C12_DecodeFailureStopsCall ==
    ~pdfArrayBuffer.valid =>
        /\ steps = <<"load">>
        /\ pc \in {"load", "failed"}
        /\ pc = "failed" => error = "DocumentDecode"
        /\ finalSignatureBuffer = "original"
        /\ signatureImage = NoImage
        /\ draws = <<>>
        /\ output = "none"

C12_Witness ==
    /\ pc = "failed"
    /\ error = "DocumentDecode"
    /\ ~pdfArrayBuffer.valid
    /\ variant = "override"
    /\ settings.isGrayscale
    /\ steps = <<"load">>

\* C13: the steps of a call start in the order decode, preprocess, embed,
\* draws, serialize; serialize starts at most once and only when every
\* earlier step succeeded; a call that failed started no step after the one
\* that failed and returned no bytes.
C13_StepOrder ==
    /\ steps # <<>> /\ steps[1] = "load"
    /\ \A i, j \in DOMAIN steps :
           i < j => \/ StepRank(steps[i]) < StepRank(steps[j])
                    \/ steps[i] = "draw" /\ steps[j] = "draw"
    /\ Len(SelectSeq(steps, LAMBDA st : st = "draw")) = Len(draws)
    /\ "embed" \in StepSet => pdfDoc.loaded
    /\ "grayscale" \in StepSet => pdfDoc.loaded
    /\ "draw" \in StepSet => signatureImage.embedded
    /\ "save" \in StepSet =>
           /\ error = "none"
           /\ pdfDoc.loaded
           /\ signatureImage.embedded
           /\ pc \in {"save", "done"}
    /\ output = "bytes" <=> pc = "done"
    /\ pc = "failed" =>
           /\ output = "none"
           /\ LET last == steps[Len(steps)]
              IN  CASE error = "DocumentDecode" -> last = "load"
                    [] error \in GrayscaleErrors -> last = "grayscale"
                    [] error = "UnsupportedFormat" ->
                           last \in {"load", "grayscale"}
                    [] error = "Embed" -> last = "embed"
                    [] error = "TypeError" -> last \in {"embed", "draw"}
                    [] OTHER -> FALSE

C13_Witness ==
    /\ pc = "done"
    /\ output = "bytes"
    /\ steps = <<"load", "grayscale", "embed", "draw", "draw", "save">>

\* C14: the preprocessing step runs, once the document is decoded, exactly
\* when settings.isGrayscale is set, and the bytes handed to the embed are
\* the processed ones when it is set and the original ones otherwise.
C14_GrayscaleIffFlag ==
    LET flag == variant = "override" /\ settings.isGrayscale
    IN  /\ "grayscale" \in StepSet => flag
        /\ (flag /\ pdfDoc.loaded) => "grayscale" \in StepSet
        /\ "embed" \in StepSet =>
               finalSignatureBuffer = IF flag THEN "processed" ELSE "original"
        /\ signatureImage.embedded =>
               signatureImage.buffer = IF flag THEN "processed" ELSE "original"

C14_Witness ==
    /\ pc = "done"
    /\ variant = "override"
    /\ settings.isGrayscale
    /\ signatureImage.embedded
    /\ signatureImage.buffer = "processed"
    /\ draws # <<>>

\* C15: on a document without pages no draw is made in any mode, the loop
\* raises nothing, and the call that gets its image embedded returns the
\* serialized document.
C15_EmptyDocumentNoDraw ==
    (pdfDoc.loaded /\ pdfDoc.pages = 0) =>
        /\ draws = <<>>
        /\ "draw" \notin StepSet
        /\ error # "TypeError"
        /\ signatureImage.embedded => pc \in {"save", "done"}
        /\ pc = "done" => output = "bytes"

C15_Witness ==
    /\ pc = "done"
    /\ output = "bytes"
    /\ pdfDoc.loaded
    /\ pdfDoc.pages = 0
    /\ settings.mode = "custom"
    /\ settings.selectedPages = <<Whole(0), 1>>
    /\ draws = <<>>

\* C16: whatever the page count, the mode, the content of selectedPages and
\* the position map, computing the target indices and running the draw loop
\* raises no error.
C16_LoopNeverRaises ==
    error # "TypeError"

\* C17: a call does not modify its arguments: the settings (mode,
\* selectedPages, position map, scale, opacity) and the two byte buffers
\* are the same after every step of the call.
C17_ArgumentsUnchanged ==
    [][/\ settings' = settings
       /\ pdfArrayBuffer' = pdfArrayBuffer
       /\ signatureArrayBuffer' = signatureArrayBuffer
       /\ signatureType' = signatureType]_vars

C17_Witness ==
    /\ pc = "done"
    /\ settings.mode = "custom"
    /\ settings.selectedPages = <<Whole(1), Whole(0)>>
    /\ Len(draws) = 2
    /\ output = "bytes"

\* C19: a call of addSignatureToPdf that failed ends its processPdf run in
\* ERROR: the step that handles the failure takes status from PROCESSING
\* to ERROR and leaves no call and no run behind, a failed call is never
\* started again, a run calls addSignatureToPdf once at most and has
\* called it once while the call is in flight, status becomes ERROR from
\* PROCESSING only, and status leaves ERROR only by the first step of a
\* new processPdf, to PROCESSING.
C19_FailedCallSingleError ==
    [][/\ (ppc = "call" /\ pc = "failed" /\ ppc' # "call") =>
              /\ status = "PROCESSING"
              /\ status' = "ERROR"
              /\ ppc' = "idle"
              /\ pc' = "idle"
              /\ callsThisRun' = 1
       /\ (ppc = "call" /\ pc = "failed") => pc' \in {"failed", "idle"}
       /\ callsThisRun' <= 1
       /\ ppc' = "call" => callsThisRun' = 1
       /\ (status # "ERROR" /\ status' = "ERROR") => status = "PROCESSING"
       /\ (status = "ERROR" /\ status' # "ERROR") =>
              /\ status' = "PROCESSING"
              /\ ppc = "idle"
              /\ ppc' = "readPdf"]_vars

C19_Witness ==
    /\ status = "ERROR"
    /\ errorMessage = ProcessingError(variant)
    /\ callsThisRun = 1
    /\ ppc = "idle"
    /\ pc = "idle"

\* C20: after any sequence of handlePdfUpload, togglePageSelection,
\* removeSignature, handleRangeApply and mode buttons, the entries of
\* settings.selectedPages are strictly ascending (sorted, none twice) and
\* each is at least 0 and less than pageCount.
C20_SelectionSortedUniqueInRange ==
    LET sel == uiSettings.selectedPages
    IN  /\ \A i, j \in DOMAIN sel : i < j => sel[i] < sel[j]
        /\ \A i \in DOMAIN sel : sel[i] >= 0 /\ sel[i] < Whole(pageCount)

Clamp(x, lo, hi) == IF x < lo THEN lo ELSE IF x > hi THEN hi ELSE x

\* pos is num / den, cut to [0, 1], times size, to the nearest integer
IsRoundedShare(pos, num, den, size) ==
    LET d == 2 * den * pos - 2 * size * Clamp(num, 0, den)
    IN  pos \in 0..size /\ d <= den /\ 0 - den <= d

\* C21: the position handleDragMove writes for the dragged page has
\* 0 <= x <= 612 and 0 <= y <= 792; x is the pointer's share of the width
\* of the page element, cut to [0, 1], times 612 and rounded, y is 1 minus
\* its share of the height, cut to [0, 1], times 792 and rounded, for any
\* size of the element; a pointer at or above the top edge gives y = 792;
\* the positions of the other pages stay as they were, and every position
\* in the map is within the same limits.
C21_DragWritesClampedPoint ==
    [][\A p \in Pointers :
           HandleDragMoveTo(p) =>
               LET before == uiSettings.pagePositions
                   after == uiSettings'.pagePositions
                   pos == after[draggingPage]
               IN  /\ IsRoundedShare(pos.x, p.dx, p.w, 612)
                   /\ IsRoundedShare(pos.y, p.h - p.dy, p.h, 792)
                   /\ p.dy <= 0 => pos.y = 792
                   /\ DOMAIN after = DOMAIN before \cup {draggingPage}
                   /\ \A k \in DOMAIN before \ {draggingPage} :
                          after[k] = before[k]
                   /\ \A k \in DOMAIN after :
                          after[k].x \in 0..612 /\ after[k].y \in 0..792]_vars

C21_Witness ==
    /\ variant = "override"
    /\ DOMAIN uiSettings.pagePositions = {0, 1}
    /\ uiSettings.pagePositions[0] = [x |-> 0, y |-> 792]
    /\ uiSettings.pagePositions[1] = [x |-> 77, y |-> 396]

\* C22: at most one call of addSignatureToPdf started from the App is in
\* flight: a processPdf starts only when no run and no call is in flight
\* and status is not PROCESSING, status is PROCESSING exactly while a run
\* is in flight, a call is in flight only as the call of that run, and a
\* call starts only when none is in flight, whatever uploads, setting
\* changes and pending steps come in between.
C22_SingleCallInFlight ==
    [][/\ ProcessPdf =>
              (ppc = "idle" /\ pc = "idle" /\ status # "PROCESSING")
       /\ (status' = "PROCESSING") <=> (ppc' # "idle")
       /\ pc' # "idle" => ppc' = "call"
       /\ (pc' = "load" /\ pc # "load") =>
              (pc = "idle" /\ ppc = "readSig")]_vars

C22_Witness ==
    /\ status = "PROCESSING"
    /\ ppc = "call"
    /\ pc = "save"
    /\ pdfFile.present
    /\ sigFile.present
    /\ uploads # {}

\* the draws of a call with the settings and the page count of the App
ExportDraws ==
    ForEachDraw(variant, uiSettings, pageCount, 0, 0,
                TargetIndices(uiSettings, pageCount))

\* drawImage is called on page idx, be it before the loop throws
ExportDrawsOn(idx) ==
    \E i \in DOMAIN ExportDraws : ExportDraws[i].pageIndex = idx

\* C23: for the settings and the page count the App is in, and every idx
\* in [0, pageCount), isPageSigned(idx) is true exactly when the call of
\* addSignatureToPdf with these settings on a document of pageCount pages
\* draws on page idx.
C23_PreviewAgreesWithExport ==
    \A idx \in 0..(pageCount - 1) :
        IsPageSigned(uiSettings, pageCount, idx) <=> ExportDrawsOn(idx)

\* C24: when isPageSigned(idx) is false, togglePageSelection(idx) makes
\* isPageSigned(idx) true, in every mode and for every selectedPages the
\* App can hold.
C24_ToggleSignsUnsignedPage ==
    [][\A index \in 0..(MaxPages - 1) :
           (/\ TogglePageSelectionAt(index)
            /\ ~IsPageSigned(uiSettings, pageCount, index)) =>
               IsPageSigned(uiSettings', pageCount', index)]_vars

\* C25: removeSignature(idx) on a page shown as signed makes
\* isPageSigned(idx) false and leaves isPageSigned(j) as it was for every
\* other page j, in every mode and for every selectedPages the App can
\* hold.
C25_RemoveUnsignsOnlyThatPage ==
    [][\A index \in 0..(MaxPages - 1) :
           RemoveSignatureAt(index) =>
               /\ IsPageSigned(uiSettings, pageCount, index)
               /\ ~IsPageSigned(uiSettings', pageCount', index)
               /\ pageCount' = pageCount
               /\ \A j \in (0..(pageCount - 1)) \ {index} :
                      IsPageSigned(uiSettings', pageCount', j)
                          <=> IsPageSigned(uiSettings, pageCount, j)]_vars

C25_Witness ==
    /\ variant = "override"
    /\ pageCount = 2
    /\ uiSettings.mode = "custom"
    /\ uiSettings.selectedPages = <<Whole(1)>>

DocumentStateUnchanged ==
    /\ pdfFile' = pdfFile
    /\ pageCount' = pageCount
    /\ pdfjsDoc' = pdfjsDoc
    /\ uiSettings' = uiSettings

\* the state after the upload of doc went through
UploadedState(doc) ==
    /\ doc.valid
    /\ pageCount' = doc.pages
    /\ pdfFile' = [present |-> TRUE, pages |-> doc.pages]
    /\ pdfjsDoc' = [present |-> TRUE, pages |-> doc.pages]
    /\ uiSettings' =
           IF variant = "simple"
           THEN [uiSettings EXCEPT
                     !.selectedPages = [i \in 1..doc.pages |-> Whole(i - 1)]]
           ELSE [uiSettings EXCEPT
                     !.selectedPages = [i \in 1..doc.pages |-> Whole(i - 1)],
                     !.pagePositions = <<>>]
    /\ uiSettings'.mode = uiSettings.mode

\* C26: handlePdfUpload changes the document state in one step or not at
\* all: starting an upload or handing in a file that is no PDF leaves
\* pdfFile, pageCount, pdfjsDoc and settings as they were; an upload that
\* ends either failed, leaving them as they were, or went through, and
\* then pageCount, pdfFile and pdfjsDoc are those of its document,
\* selectedPages is [0..pageCount-1], the position map is empty and mode
\* and the other settings are as before; a document that cannot be
\* decoded never goes through; pdfFile, pdfjsDoc and pageCount agree after
\* every step; all this with other uploads in flight.
C26_UploadAtomic ==
    [][LET ended == uploads \ uploads'
       IN  /\ HandlePdfUpload => DocumentStateUnchanged
           /\ ended # {} =>
                  \E doc \in ended :
                      \/ DocumentStateUnchanged
                      \/ UploadedState(doc)
           /\ (ended # {} /\ \A doc \in ended : ~doc.valid) =>
                  DocumentStateUnchanged
           /\ pdfjsDoc' = pdfFile'
           /\ pdfFile'.pages = pageCount']_vars

C26_Witness ==
    /\ variant = "override"
    /\ pdfFile = [present |-> TRUE, pages |-> 1]
    /\ pageCount = 1
    /\ uiSettings.mode = "custom"
    /\ uiSettings.selectedPages = <<Whole(0)>>
    /\ uiSettings.pagePositions = <<>>
    /\ uploads = {[valid |-> TRUE, pages |-> 2]}

\* C27: when every awaited step settles, a processPdf that set status to
\* PROCESSING sets it to COMPLETED or ERROR later on, so status does not
\* stay PROCESSING; and status becomes PROCESSING only with a PDF and a
\* signature loaded, a processPdf without one of them changing nothing.
C27_ProcessingEnds ==
    /\ (status = "PROCESSING") ~> (status \in {"COMPLETED", "ERROR"})
    /\ [][(status' = "PROCESSING" /\ status # "PROCESSING") =>
              (pdfFile.present /\ sigFile.present)]_vars

C27_Witness ==
    /\ status = "COMPLETED"
    /\ ppc = "idle"
    /\ callsThisRun = 1
    /\ uploads # {}

\* C28: whenever status is COMPLETED, errorMessage is empty: the message
\* of an earlier failed run is gone after a later run that went through.
C28_CompletedWithoutMessage ==
    status = "COMPLETED" => errorMessage = ""

\* C29: after applyToAll every page of the document has an override and
\* all overrides are the same position, which every page then resolves
\* to: the override of the lowest page that had one before, or (globalX,
\* globalY) when there was none; nothing else of settings changes.
C29_ApplyToAllUniform ==
    [][ApplyToAll =>
           LET before == uiSettings.pagePositions
               after == uiSettings'.pagePositions
           IN  /\ DOMAIN after = 0..(pageCount - 1)
               /\ \E pos \in {after[k] : k \in DOMAIN after}
                           \cup {[x |-> uiSettings.globalX,
                                  y |-> uiSettings.globalY]} :
                      /\ IF DOMAIN before = {}
                         THEN pos = [x |-> uiSettings.globalX,
                                     y |-> uiSettings.globalY]
                         ELSE \E k \in DOMAIN before :
                                  /\ \A j \in DOMAIN before : k <= j
                                  /\ pos = before[k]
                      /\ \A idx \in 0..(pageCount - 1) :
                             /\ after[idx] = pos
                             /\ PositionOf("override", uiSettings', idx) = pos
               /\ uiSettings' = [uiSettings EXCEPT !.pagePositions = after]
               /\ pageCount' = pageCount]_vars

C29_Witness ==
    /\ variant = "override"
    /\ pageCount = 2
    /\ DOMAIN uiSettings.pagePositions = {0, 1}
    /\ uiSettings.pagePositions[0] = [x |-> 77, y |-> 396]
    /\ uiSettings.pagePositions[1] = [x |-> 77, y |-> 396]
    /\ draggingPage = NoPage

\* the settings of the simple routine that correspond to override settings:
\* x and y take the global position, the other shared fields are the same
SimpleOf(s) ==
    [x |-> s.globalX, y |-> s.globalY, scale |-> s.scale,
     opacity |-> s.opacity, mode |-> s.mode,
     selectedPages |-> s.selectedPages]

\* the outcome of the simple routine on a document, a signature, a MIME
\* type and simple settings, when the embedding of the picture succeeds
\* (embedOk) or is rejected: it loads, embeds the original bytes, draws
\* and saves
SimpleOutcome(doc, sig, type, s, embedOk) ==
    IF ~doc.valid
    THEN [error |-> "DocumentDecode", draws |-> <<>>, output |-> "none"]
    ELSE IF EmbedKind(type) = "unsupported"
    THEN [error |-> "UnsupportedFormat", draws |-> <<>>, output |-> "none"]
    ELSE IF ~embedOk
    THEN [error |-> "Embed", draws |-> <<>>, output |-> "none"]
    ELSE LET img == [width |-> sig.width, height |-> sig.height]
             size == ScaleImage(img, s.scale)
             target == TargetIndices(s, doc.pages)
             made == ForEachDraw("simple", s, doc.pages, size.width,
                                 size.height, target)
         IN  IF ForEachThrows(doc.pages, target)
             THEN [error |-> "TypeError", draws |-> made, output |-> "none"]
             ELSE [error |-> "none", draws |-> made, output |-> "bytes"]

\* C30: a finished call of the routine with per-page overrides, made
\* without grayscale and with an empty position map, has the outcome of the
\* simple routine on the same document, signature and MIME type with
\* x = globalX and y = globalY: the same error, or the same draws (page,
\* position, size, opacity) in the same order and the same saved output,
\* from the same signature bytes
C30_VariantsAgreeOnCommonCase ==
    (/\ variant = "override"
     /\ ~settings.isGrayscale
     /\ settings.pagePositions = <<>>
     /\ pc \in {"done", "failed"})
        => /\ finalSignatureBuffer = "original"
           /\ [error |-> error, draws |-> draws, output |-> output]
                  = SimpleOutcome(pdfArrayBuffer, signatureArrayBuffer,
                                  signatureType, SimpleOf(settings),
                                  signatureImage # NoImage)

\* such a call that drew the signature on two pages at the global position
C30_Witness ==
    /\ variant = "override"
    /\ ~settings.isGrayscale
    /\ settings.pagePositions = <<>>
    /\ pc = "done"
    /\ Len(draws) = 2
    /\ \A i \in 1..2 : draws[i].x = 400 /\ draws[i].y = 50

====
